---- MODULE Spec2Model ----
(***************************************************************************)
(* Model of the CEO-Agent services.                                        *)
(*                                                                         *)
(*   main.py  - the AgentOS application with the four knowledge handlers   *)
(*              /loadknowledge, /knowledge/status, /knowledge/search and   *)
(*              /test/agent                      (specification Spec)      *)
(*   agent.py - the Playground application with the CEO and CTO agents     *)
(*              sharing one session table        (specification SpecAgents)*)
(*                                                                         *)
(* The agno library (Knowledge, PgVector, Agent, SqliteStorage) is not     *)
(* part of the repository; its operations are modelled from the            *)
(* repository's specification (sections 3 and 4) and are named Knowledge*  *)
(* and Agent* below.  Every call into the library may raise.               *)
(***************************************************************************)
EXTENDS Integers, Sequences, FiniteSets, TLC

VARIABLES
    contents,   \* knowledge_contents table: the Content Item rows, in insertion order
    vectors,    \* vectors table: the Chunk rows, in insertion order
    loads,      \* the /loadknowledge requests: where each coroutine stands
    last,       \* the most recent handler step: its input, log lines, library calls, response
    sessions    \* agent_sessions table of agent.py: session_id -> turns

vars == <<contents, vectors, loads, last, sessions>>

------------------------------------------------------------------------------
(* Bounds of the model *)

\* number of /loadknowledge requests ever received
MaxLoads == 2

\* largest explicit limit passed to /knowledge/search
MaxLimit == 2

\* turn pairs stored per session of agent.py
MaxTurns == 2

------------------------------------------------------------------------------
(* Program constants *)

\* raise HTTPException(status_code=500, ...)
HTTP_500 == 500

\* FastAPI's status of a handler that returns normally
HTTP_200 == 200

\* knowledge.get_contents_async(limit=20)
StatusListLimit == 20

\* content_preview: str(content)[:200] + "..."
StatusPreviewLen == 200

\* search result content: str(content)[:500] + "..."
SearchPreviewLen == 500

\* loaded_items: str(result)[:100]
ResultPreviewLen == 100

\* search_knowledge_direct(query: str, limit: int = 5)
DefaultLimit == 5

\* len("...")
EllipsisLen == 3

\* agent.py: num_history_runs=10
NumHistoryRuns == 10

------------------------------------------------------------------------------
(* Helpers *)

Min(a, b) == IF a <= b THEN a ELSE b

Abs(a) == IF a < 0 THEN 0 - a ELSE a

Range(s) == {s[i] : i \in 1..Len(s)}

Take(s, n) == SubSeq(s, 1, Min(n, Len(s)))

IsPrefix(p, s) == Len(p) <= Len(s) /\ \A i \in 1..Len(p) : p[i] = s[i]

\* number of decimal digits of a natural number: len(str(n))
RECURSIVE DecLen(_)
DecLen(n) == IF n < 10 THEN 1 ELSE 1 + DecLen(n \div 10)

------------------------------------------------------------------------------
(* The three fixed sources of /loadknowledge *)

ThaiRecipes ==
    [name |-> "Thai Recipes Collection", kind |-> "url",
     user_tag |-> "Thai Recipes", textlen |-> 0]

CEOPractices ==
    [name |-> "CEO Leadership Best Practices", kind |-> "text",
     user_tag |-> "CEO Guidelines", textlen |-> 1268]

CompanyPolicies ==
    [name |-> "Company Policies and Procedures", kind |-> "text",
     user_tag |-> "Company Policies", textlen |-> 860]

\* the order of the three awaited add_content_async calls
LoadOrder == <<ThaiRecipes, CEOPractices, CompanyPolicies>>

\* the names the success response lists
LoadedItemNames ==
    <<"Thai Recipes Collection", "CEO Leadership Best Practices", "Company Policies">>

SourceNames == {LoadOrder[i].name : i \in 1..Len(LoadOrder)}

LoadReqs == 1..MaxLoads

------------------------------------------------------------------------------
(* The Knowledge library, modelled from the specification *)

\* embedder: text -> vector, abstracted to a point of 0..2
Embed(text) ==
    CASE text = "recipes" -> 0
      [] text = "leadership" -> 2
      [] OTHER -> 1

\* similarity of two embeddings: larger is closer
Similarity(a, b) == 2 - Abs(a - b)

\* chunking + embedding of a source: the Chunk bodies it yields
ChunksOf(src) ==
    CASE src.kind = "url" -> <<[emb |-> 0, len |-> 700], [emb |-> 1, len |-> 300]>>
      [] src.name = "CEO Leadership Best Practices" -> <<[emb |-> 2, len |-> 1268]>>
      [] OTHER -> <<[emb |-> 2, len |-> 860]>>

\* errors an ingest call can raise
IngestErrors(src) ==
    IF src.kind = "url" THEN {"FetchError"} ELSE {"EmbeddingError"}

\* the Content Item row a successful ingest stores (req: the request that stored it)
NewItem(cs, src, r) ==
    [id |-> Len(cs) + 1, name |-> src.name, metadata |-> src.user_tag,
     clen |-> src.textlen, req |-> r]

\* the Chunk rows a successful ingest stores
NewChunks(cs, src, r) ==
    [k \in 1..Len(ChunksOf(src)) |->
        [cid |-> Len(cs) + 1, seq |-> k, emb |-> ChunksOf(src)[k].emb,
         len |-> ChunksOf(src)[k].len, metadata |-> src.user_tag, req |-> r]]

\* add_content_async: one Content Item row and its Chunk rows, never deduplicated
KnowledgeAddContents(cs, src, r) == Append(cs, NewItem(cs, src, r))

KnowledgeAddVectors(cs, vs, src, r) == vs \o NewChunks(cs, src, r)

\* the value add_content_async returns: the stored item's identifier
IngestResult(cs, src) == Len(cs) + 1

\* a failed ingest call: the ingestion aborts and no partial row is persisted
KnowledgeAbortContents(cs, src, r) == cs

KnowledgeAbortVectors(vs, src, r) == vs

\* get_contents_async(limit): the first `limit` Content Items
KnowledgeList(cs, limit) == Take(cs, limit)


\* the stored chunks as search candidates, each with its score for the query
\* (ord: the chunk's position in the vectors table)
Scored(vs, q) ==
    [i \in 1..Len(vs) |->
        [content |-> vs[i].len, metadata |-> vs[i].metadata,
         score |-> Similarity(Embed(q), vs[i].emb), ord |-> i]]

\* x placed after every candidate whose score is at least its own
RECURSIVE InsertByScore(_, _)
InsertByScore(s, x) ==
    IF s = <<>> THEN <<x>>
    ELSE IF Head(s).score >= x.score
         THEN <<Head(s)>> \o InsertByScore(Tail(s), x)
         ELSE <<x>> \o s

\* candidates by descending score, ties by insertion order (earliest first)
RECURSIVE Ranked(_)
Ranked(s) ==
    IF s = <<>> THEN <<>>
    ELSE InsertByScore(Ranked(SubSeq(s, 1, Len(s) - 1)), s[Len(s)])

\* search_async(query, limit): at most `limit` chunks, best first
KnowledgeSearch(vs, q, limit) == Take(Ranked(Scored(vs, q)), limit)

------------------------------------------------------------------------------
(* Values the handlers build *)

\* raise HTTPException(status_code=500, detail=f"<operation>: {str(e)}")
HTTPException(operation, e) ==
    [code |-> HTTP_500, body |-> [detail |-> <<operation, e>>]]

\* a handler's return value, sent by FastAPI with status 200
Returned(body) == [code |-> HTTP_200, body |-> body]

NoResponse == [code |-> 0, body |-> [none |-> TRUE]]

LogLine(level, msg, arg) == [level |-> level, msg |-> msg, arg |-> arg]

\* s[:n] + "..." if len(s) > n else s, on the length of s
Preview(len, n) == IF len > n THEN n + EllipsisLen ELSE len

\* str(result)[:100], on the length of the decimal form of result
ResultPreview(result) ==
    [value |-> result, len |-> Min(DecLen(result), ResultPreviewLen)]

\* one event record per handler step
Event(op, req, input, log, calls, resp) ==
    [op |-> op, req |-> req, input |-> input, log |-> log, calls |-> calls,
     resp |-> resp]


------------------------------------------------------------------------------
(* POST /loadknowledge: a coroutine that suspends at each of its three awaits *)

SourceNamed(n) == CHOOSE src \in Range(LoadOrder) : src.name = n

AddContentCall(src) == [fn |-> "add_content_async", arg |-> src.name]

IdleLoad ==
    [pc |-> "idle", started |-> <<>>, running |-> {}, completed |-> <<>>,
     results |-> <<>>, failed |-> <<>>, resp |-> NoResponse]

\* the success response of /loadknowledge
LoadResponse(results) ==
    Returned([status |-> "success",
              message |-> "Knowledge base loaded successfully",
              loaded_items |->
                  [k \in 1..Len(LoadedItemNames) |->
                      [name |-> LoadedItemNames[k],
                       result |-> ResultPreview(results[k])]]])

\* a handler with the commented-out `await knowledge.clear()` switched on
load_knowledge_begin_clearing(r) ==
    /\ loads[r].pc = "idle"
    /\ IF r = 1 THEN TRUE ELSE loads[r - 1].pc # "idle"
    /\ contents' = <<>>
    /\ vectors' = <<>>
    /\ loads' = [loads EXCEPT ![r].pc = "running",
                              ![r].started = <<LoadOrder[1].name>>,
                              ![r].running = {LoadOrder[1].name}]
    /\ last' = Event("loadknowledge", r, "begin",
                     <<LogLine("info", "Starting knowledge loading process...", "")>>,
                     <<[fn |-> "clear", arg |-> ""], AddContentCall(LoadOrder[1])>>,
                     NoResponse)
    /\ UNCHANGED sessions

\* entry of the handler up to its first await: no clear, first ingest call issued
\* (requests are numbered in the order they arrive)
load_knowledge_begin(r) ==
    /\ loads[r].pc = "idle"
    /\ IF r = 1 THEN TRUE ELSE loads[r - 1].pc # "idle"
    /\ loads' = [loads EXCEPT ![r].pc = "running",
                              ![r].started = <<LoadOrder[1].name>>,
                              ![r].running = {LoadOrder[1].name}]
    /\ last' = Event("loadknowledge", r, "begin",
                     <<LogLine("info", "Starting knowledge loading process...", "")>>,
                     <<AddContentCall(LoadOrder[1])>>, NoResponse)
    /\ UNCHANGED <<contents, vectors, sessions>>

\* a handler whose third add_content_async is started but not awaited: the
\* response leaves while that ingestion is still running
load_knowledge_resume_unawaited(r, n) ==
    /\ loads[r].pc = "running"
    /\ n \in loads[r].running
    /\ LET src == SourceNamed(n)
           i == Len(loads[r].completed) + 1
           results == Append(loads[r].results, IngestResult(contents, src))
       IN  /\ contents' = KnowledgeAddContents(contents, src, r)
           /\ vectors' = KnowledgeAddVectors(contents, vectors, src, r)
           /\ IF i < Len(LoadOrder) - 1
              THEN /\ loads' = [loads EXCEPT
                          ![r].completed = Append(@, n),
                          ![r].results = results,
                          ![r].started = Append(@, LoadOrder[i + 1].name),
                          ![r].running = (@ \ {n}) \cup {LoadOrder[i + 1].name}]
                   /\ last' = Event("loadknowledge", r, "resume", <<>>,
                                    <<AddContentCall(LoadOrder[i + 1])>>, NoResponse)
              ELSE /\ loads' = [loads EXCEPT
                          ![r].completed = Append(@, n),
                          ![r].results = results,
                          ![r].started = Append(@, LoadOrder[i + 1].name),
                          ![r].running = (@ \ {n}) \cup {LoadOrder[i + 1].name},
                          ![r].pc = "done_ok",
                          ![r].resp = LoadResponse(Append(results, 0))]
                   /\ last' = Event("loadknowledge", r, "resume",
                                    <<LogLine("info", "Knowledge loading completed successfully", "")>>,
                                    <<AddContentCall(LoadOrder[i + 1])>>,
                                    LoadResponse(Append(results, 0)))
    /\ UNCHANGED sessions

\* an awaited add_content_async returns: the library has stored the item; the
\* handler goes on to the next ingest call, or after the third to the response
load_knowledge_resume(r, n) ==
    /\ loads[r].pc = "running"
    /\ n \in loads[r].running
    /\ LET src == SourceNamed(n)
           i == Len(loads[r].completed) + 1
           results == Append(loads[r].results, IngestResult(contents, src))
       IN  /\ contents' = KnowledgeAddContents(contents, src, r)
           /\ vectors' = KnowledgeAddVectors(contents, vectors, src, r)
           /\ IF i < Len(LoadOrder)
              THEN /\ loads' = [loads EXCEPT
                          ![r].completed = Append(@, n),
                          ![r].results = results,
                          ![r].started = Append(@, LoadOrder[i + 1].name),
                          ![r].running = (@ \ {n}) \cup {LoadOrder[i + 1].name}]
                   /\ last' = Event("loadknowledge", r, "resume", <<>>,
                                    <<AddContentCall(LoadOrder[i + 1])>>, NoResponse)
              ELSE /\ loads' = [loads EXCEPT
                          ![r].completed = Append(@, n),
                          ![r].results = results,
                          ![r].running = @ \ {n},
                          ![r].pc = "done_ok",
                          ![r].resp = LoadResponse(results)]
                   /\ last' = Event("loadknowledge", r, "resume",
                                    <<LogLine("info", "Knowledge loading completed successfully", "")>>,
                                    <<>>, LoadResponse(results))
    /\ UNCHANGED sessions

\* a handler whose except clause deletes what the request had ingested
load_knowledge_except_rollback(r, n, e) ==
    /\ loads[r].pc = "running"
    /\ n \in loads[r].running
    /\ e \in IngestErrors(SourceNamed(n))
    /\ LET Others(c) == c.req # r
       IN  /\ contents' = SelectSeq(contents, Others)
           /\ vectors' = SelectSeq(vectors, Others)
    /\ loads' = [loads EXCEPT
           ![r].running = @ \ {n},
           ![r].failed = Append(@, n),
           ![r].pc = "done_err",
           ![r].resp = HTTPException("Error loading knowledge", e)]
    /\ last' = Event("loadknowledge", r, "except",
                     <<LogLine("error", "Error loading knowledge", e)>>,
                     <<[fn |-> "clear", arg |-> ""]>>,
                     HTTPException("Error loading knowledge", e))
    /\ UNCHANGED sessions

\* an awaited add_content_async raises e: the except clause logs and raises
\* HTTPException; nothing is cleared and no later ingest call is issued
load_knowledge_except(r, n, e) ==
    /\ loads[r].pc = "running"
    /\ n \in loads[r].running
    /\ e \in IngestErrors(SourceNamed(n))
    /\ contents' = KnowledgeAbortContents(contents, SourceNamed(n), r)
    /\ vectors' = KnowledgeAbortVectors(vectors, SourceNamed(n), r)
    /\ loads' = [loads EXCEPT
           ![r].running = @ \ {n},
           ![r].failed = Append(@, n),
           ![r].pc = "done_err",
           ![r].resp = HTTPException("Error loading knowledge", e)]
    /\ last' = Event("loadknowledge", r, "except",
                     <<LogLine("error", "Error loading knowledge", e)>>,
                     <<>>, HTTPException("Error loading knowledge", e))
    /\ UNCHANGED sessions

load_knowledge ==
    \E r \in LoadReqs :
        \/ load_knowledge_begin(r)
        \/ \E n \in SourceNames : load_knowledge_resume(r, n)
        \/ \E n \in SourceNames : \E e \in {"FetchError", "EmbeddingError"} :
               load_knowledge_except(r, n, e)

------------------------------------------------------------------------------
(* GET /knowledge/status *)

ListingOutcomes == {"ok", "raises", "format_raises"}

KnowledgeName == "CEO Knowledge Base"

KnowledgeDescription == "Comprehensive knowledge base for CEO Agent"

\* the list comprehension over knowledge_items
FormatContents(items) ==
    [k \in 1..Len(items) |->
        [name |-> items[k].name, id |-> items[k].id,
         metadata |-> items[k].metadata,
         content_preview |-> Preview(items[k].clen, StatusPreviewLen)]]

\* the inner try: contents stays [] unless the listing and the comprehension both succeed
StatusContents(listing, items) ==
    IF listing = "ok" THEN FormatContents(items) ELSE <<>>

\* the inner except: a warning, and the handler goes on
StatusListingLog(listing) ==
    CASE listing = "raises" ->
            <<LogLine("warning", "Could not retrieve knowledge contents", "StorageUnavailable")>>
      [] listing = "format_raises" ->
            <<LogLine("warning", "Could not retrieve knowledge contents", "TypeError")>>
      [] OTHER -> <<>>

\* a handler whose inner except re-raises: a listing failure fails the request
StatusResponseStrict(listing, attrFault, listed) ==
    IF attrFault \/ listing # "ok"
    THEN HTTPException("Error getting knowledge status", "AttributeError")
    ELSE Returned([status |-> "success",
                   knowledge_base_name |-> KnowledgeName,
                   description |-> KnowledgeDescription,
                   total_contents |-> Len(listed),
                   contents |-> listed])

\* the return statement, or the outer except when reading knowledge.name raises
StatusResponse(listing, attrFault, listed) ==
    IF attrFault
    THEN HTTPException("Error getting knowledge status", "AttributeError")
    ELSE Returned([status |-> "success",
                   knowledge_base_name |-> KnowledgeName,
                   description |-> KnowledgeDescription,
                   total_contents |-> Len(listed),
                   contents |-> listed])

get_knowledge_status(listing, attrFault) ==
    LET items == KnowledgeList(contents, StatusListLimit)
        listed == StatusContents(listing, items)
        errlog == IF attrFault
                  THEN <<LogLine("error", "Error getting knowledge status", "AttributeError")>>
                  ELSE <<>>
    IN  /\ listing = "format_raises" => items # <<>>
        /\ last' = Event("status", 0, [listing |-> listing, attrFault |-> attrFault],
                         StatusListingLog(listing) \o errlog,
                         <<[fn |-> "get_contents_async", arg |-> StatusListLimit]>>,
                         StatusResponse(listing, attrFault, listed))
        /\ UNCHANGED <<contents, vectors, loads, sessions>>

------------------------------------------------------------------------------
(* POST /knowledge/search *)

Queries == {"recipes", "leadership"}

Limits == (0..MaxLimit) \cup {DefaultLimit}

\* ok: the search returns its ranking; failed_empty: the index failed inside the
\* library, which returns nothing; raises: search_async raises; format_raises: str()
\* of a result raises
SearchOutcomes == {"ok", "failed_empty", "raises", "format_raises"}

\* the requests explored: every query and limit with a working index, and the
\* failing outcomes with the default limit
SearchInputs ==
    {<<q, l, "ok">> : q \in Queries, l \in Limits}
        \cup {<<q, DefaultLimit, o>> : q \in Queries, o \in SearchOutcomes \ {"ok"}}

\* a handler that numbers the results from 0: rank = i
FormatResultsZeroBased(results) ==
    [i \in 1..Len(results) |->
        [rank |-> i - 1,
         content |-> Preview(results[i].content, SearchPreviewLen),
         metadata |-> results[i].metadata,
         score |-> results[i].score,
         ord |-> results[i].ord]]

\* for i, result in enumerate(results): rank = i + 1, content cut to 500 characters
FormatResults(results) ==
    [i \in 1..Len(results) |->
        [rank |-> (i - 1) + 1,
         content |-> Preview(results[i].content, SearchPreviewLen),
         metadata |-> results[i].metadata,
         score |-> results[i].score,
         ord |-> results[i].ord]]

SearchResponse(query, formatted) ==
    Returned([status |-> "success", query |-> query,
              results_count |-> Len(formatted), results |-> formatted])

\* a handler that answers a failed search with an empty success
SearchExceptSwallowed(e) ==
    Returned([status |-> "success", query |-> "", results_count |-> 0, results |-> <<>>])

\* except Exception as e: log and raise HTTPException
SearchExcept(e) == HTTPException("Error searching knowledge", e)

SearchError(outcome) == IF outcome = "raises" THEN "StorageUnavailable" ELSE "TypeError"

search_knowledge_direct(query, limit, outcome) ==
    LET found == KnowledgeSearch(vectors, query, limit)
        results == IF outcome = "failed_empty" THEN <<>> ELSE found
        raised == outcome \in {"raises", "format_raises"}
        resp == IF raised
                THEN SearchExcept(SearchError(outcome))
                ELSE SearchResponse(query, FormatResults(results))
    IN  /\ outcome = "format_raises" => found # <<>>
        /\ last' = Event("search", 0,
                         [query |-> query, limit |-> limit, outcome |-> outcome,
                          indexed |-> Len(vectors)],
                         <<LogLine("info", "Searching knowledge base for", query)>>
                            \o (IF raised
                                THEN <<LogLine("error", "Error searching knowledge",
                                               SearchError(outcome))>>
                                ELSE <<>>),
                         <<[fn |-> "search_async", arg |-> <<query, limit>>]>>,
                         resp)
        /\ UNCHANGED <<contents, vectors, loads, sessions>>

------------------------------------------------------------------------------
(* POST /test/agent *)

Questions == {"What is our remote work policy?", ""}

\* the dict the try block returns
TestAgentInfo(question) ==
    Returned([status |-> "info",
              message |-> "Use the main chat endpoint to interact with the agent",
              suggestion |-> <<"Ask your question '", question,
                               "' through the agent interface">>])

\* except Exception as e: return {"status": "error", "message": str(e)}
TestAgentExcept(e) == Returned([status |-> "error", message |-> e])

\* fault: an exception raised while the try block builds its dict
test_agent_knowledge(question, fault) ==
    /\ last' = Event("test_agent", 0, [question |-> question, fault |-> fault],
                     <<>>, <<>>,
                     IF fault THEN TestAgentExcept("MemoryError")
                              ELSE TestAgentInfo(question))
    /\ UNCHANGED <<contents, vectors, loads, sessions>>

------------------------------------------------------------------------------
(* agent.py: the Playground with the CEO and CTO agents on one session table *)

\* storage = SqliteStorage(table_name="agent_sessions", db_file="agent.db")
SessionTable == "agent_sessions"

ceo_agent ==
    [name |-> "CEO Agent", model |-> "gpt-4.1", storage |-> SessionTable,
     num_history_runs |-> NumHistoryRuns,
     session_id |-> "ceo_agent_session", user_id |-> "ceo_user"]

cto_agent_shared_session ==
    [name |-> "CTO Agent", model |-> "gpt-4.1", storage |-> SessionTable,
     num_history_runs |-> NumHistoryRuns,
     session_id |-> "ceo_agent_session", user_id |-> "cto_user"]

cto_agent ==
    [name |-> "CTO Agent", model |-> "gpt-4.1", storage |-> SessionTable,
     num_history_runs |-> NumHistoryRuns,
     session_id |-> "cto_agent_session", user_id |-> "cto_user"]

\* playground = Playground(agents=[ceo_agent, cto_agent])
PlaygroundAgents == {ceo_agent, cto_agent}

Messages == {"What is our strategy?", "Review the architecture"}

Replies == {"Here is my view.", "I need more detail."}

\* the storage keys a row of the session table by its session_id
SessionKey(agent) == agent.session_id

\* the stored turns of an agent's session; none before its first turn
SessionOf(agent) ==
    IF SessionKey(agent) \in DOMAIN sessions THEN sessions[SessionKey(agent)] ELSE <<>>

\* the last n runs (turn pairs) of a session, oldest first
LastRuns(turns, n) ==
    IF Len(turns) <= 2 * n THEN turns ELSE SubSeq(turns, Len(turns) - 2 * n + 1, Len(turns))

Turn(role, text, agent) == [role |-> role, text |-> text, agent |-> agent.name]

\* sessions with the turn pair of one run appended to the agent's record
AppendTurns(agent, message, reply) ==
    [k \in DOMAIN sessions \cup {SessionKey(agent)} |->
        IF k = SessionKey(agent)
        THEN SessionOf(agent) \o <<Turn("user", message, agent), Turn("agent", reply, agent)>>
        ELSE sessions[k]]

\* respond: history + message go to the model; the user turn and the reply are stored
AgentRespond(agent, message, reply) ==
    /\ Len(SessionOf(agent)) < 2 * MaxTurns
    /\ sessions' = AppendTurns(agent, message, reply)
    /\ last' = Event("agent_run", 0, [agent |-> agent.name, message |-> message],
                     <<>>,
                     <<[fn |-> "model", arg |-> [model |-> agent.model,
                          history |-> LastRuns(SessionOf(agent), agent.num_history_runs),
                          message |-> message]]>>,
                     Returned([content |-> reply]))
    /\ UNCHANGED <<contents, vectors, loads>>

\* the model call fails: GenerationError, and neither turn is stored
AgentRespondFails(agent, message) ==
    /\ last' = Event("agent_run", 0, [agent |-> agent.name, message |-> message],
                     <<>>,
                     <<[fn |-> "model", arg |-> [model |-> agent.model,
                          history |-> LastRuns(SessionOf(agent), agent.num_history_runs),
                          message |-> message]]>>,
                     HTTPException("GenerationError", "model provider failure"))
    /\ UNCHANGED <<contents, vectors, loads, sessions>>

------------------------------------------------------------------------------
Init ==
    /\ contents = <<>>
    /\ vectors = <<>>
    /\ loads = [r \in LoadReqs |-> IdleLoad]
    /\ last = Event("init", 0, "", <<>>, <<>>, NoResponse)
    /\ sessions = [k \in {} |-> <<>>]

\* `last` is the only variable the three read-only handlers write, so two of them
\* in a row reach the state the second one reaches alone: they are explored from
\* the states the start or a /loadknowledge step leaves
AfterLoadStep == last.op \in {"init", "loadknowledge"}

Next ==
    \/ load_knowledge
    \/ /\ AfterLoadStep
       /\ \E listing \in ListingOutcomes : \E attrFault \in BOOLEAN :
              get_knowledge_status(listing, attrFault)
    \/ /\ AfterLoadStep
       /\ \E in \in SearchInputs : search_knowledge_direct(in[1], in[2], in[3])
    \/ /\ AfterLoadStep
       /\ \E question \in Questions : \E fault \in BOOLEAN :
              test_agent_knowledge(question, fault)

Spec == Init /\ [][Next]_vars


NextAgents ==
    \/ \E agent \in PlaygroundAgents : \E message \in Messages : \E reply \in Replies :
           AgentRespond(agent, message, reply)
    \/ \E agent \in PlaygroundAgents : \E message \in Messages :
           AgentRespondFails(agent, message)

SpecAgents == Init /\ [][NextAgents]_vars


------------------------------------------------------------------------------
(* Derived views used by the properties *)

\* the Content Items a /loadknowledge request stored, oldest first
ItemsOf(r) ==
    LET StoredBy(c) == c.req = r
    IN  SelectSeq(contents, StoredBy)

\* the Chunk rows a /loadknowledge request stored
ChunksStoredBy(r) ==
    LET StoredBy(c) == c.req = r
    IN  SelectSeq(vectors, StoredBy)

NamesOf(items) == [i \in 1..Len(items) |-> items[i].name]

CountItems(n) == Cardinality({i \in 1..Len(contents) : contents[i].name = n})

CountChunks(src) ==
    Cardinality({i \in 1..Len(vectors) : vectors[i].metadata = src.user_tag})

NumSucceeded == Cardinality({r \in LoadReqs : loads[r].pc = "done_ok"})

\* the step just taken is a handler whose try block raised to its outer except
BodyRaised ==
    \/ last.op = "loadknowledge" /\ last.input = "except"
    \/ last.op = "status" /\ last.input.attrFault
    \/ last.op = "search" /\ last.input.outcome \in {"raises", "format_raises"}
    \/ last.op = "test_agent" /\ last.input.fault

ErrorOperations ==
    {"Error loading knowledge", "Error getting knowledge status",
     "Error searching knowledge"}

\* a response of the form HTTP 500 {detail: "Error <operation>: <message>"}
IsErrorEnvelope(resp) ==
    /\ resp.code = 500
    /\ DOMAIN resp.body = {"detail"}
    /\ Len(resp.body.detail) = 2
    /\ resp.body.detail[1] \in ErrorOperations

------------------------------------------------------------------------------
(* C1 *)

\* C1: whenever the body of one of the four handlers of main.py raises, the
\* response is HTTP 500 with body {detail: "Error <operation>: <message>"}; no
\* handler reports an error with another status code or body shape.
C1_UniformErrorEnvelope == BodyRaised => IsErrorEnvelope(last.resp)

\* the envelope does hold for /loadknowledge, /knowledge/status and /knowledge/search
ErrorEnvelopeOfKnowledgeHandlers ==
    (BodyRaised /\ last.op # "test_agent") => IsErrorEnvelope(last.resp)

------------------------------------------------------------------------------
(* C2 *)

\* C2 as claimed: a /knowledge/search against an empty index, or against an index
\* whose search call fails, returns success with an empty results list.
C2_FailedSearchIsEmptySuccess ==
    (/\ last.op = "search"
     /\ \/ last.input.indexed = 0
        \/ last.input.outcome \in {"failed_empty", "raises"})
    => /\ last.resp.code = 200
       /\ last.resp.body.status = "success"
       /\ last.resp.body.results_count = 0
       /\ last.resp.body.results = <<>>

\* C2 amended: a search whose call returns normally and finds nothing (an empty
\* index, or a failure the library absorbs by returning no results) is answered
\* with success, results_count = 0 and results = [], for any query and limit; a
\* search whose call raises is answered HTTP 500 with detail
\* "Error searching knowledge: <message>".
C2_EmptySuccessUnlessRaised ==
    last.op = "search" =>
        /\ last.input.outcome \in {"raises", "format_raises"} =>
              /\ IsErrorEnvelope(last.resp)
              /\ last.resp.body.detail[1] = "Error searching knowledge"
        /\ (/\ last.input.outcome \notin {"raises", "format_raises"}
            /\ last.input.indexed = 0 \/ last.input.outcome = "failed_empty")
           => /\ last.resp.code = 200
              /\ last.resp.body.status = "success"
              /\ last.resp.body.query = last.input.query
              /\ last.resp.body.results_count = 0
              /\ last.resp.body.results = <<>>

\* a search with a non-zero limit against the empty index has answered success
\* with no results
C2_Witness ==
    /\ last.op = "search"
    /\ last.input.outcome = "ok"
    /\ last.input.indexed = 0
    /\ last.input.limit > 0
    /\ last.resp.code = 200
    /\ last.resp.body.results_count = 0


------------------------------------------------------------------------------
(* C3 *)

ListingFailed == last.input.listing \in {"raises", "format_raises"}

\* C3: in /knowledge/status a failure while listing the knowledge contents never
\* fails the request: it is logged as a warning and the handler still returns
\* status "success" with contents = [] and total_contents = 0; in every success
\* response total_contents is the length of contents.
C3_ListingFailureDegrades ==
    last.op = "status" =>
        /\ last.resp.code = 500 <=> last.input.attrFault
        /\ ListingFailed =>
              \E i \in 1..Len(last.log) :
                  /\ last.log[i].level = "warning"
                  /\ last.log[i].msg = "Could not retrieve knowledge contents"
        /\ ~last.input.attrFault =>
              /\ last.resp.code = 200
              /\ last.resp.body.status = "success"
              /\ last.resp.body.total_contents = Len(last.resp.body.contents)
              /\ ListingFailed =>
                    /\ last.resp.body.contents = <<>>
                    /\ last.resp.body.total_contents = 0
              /\ ~ListingFailed =>
                    last.resp.body.total_contents = Min(Len(contents), 20)

\* the listing has raised while the index held items, and the answer is success
\* with nothing listed
C3_Witness ==
    /\ last.op = "status"
    /\ last.input.listing = "raises"
    /\ ~last.input.attrFault
    /\ Len(contents) > 0
    /\ last.resp.code = 200
    /\ last.resp.body.total_contents = 0

------------------------------------------------------------------------------
(* C5 *)

\* C5: a /knowledge/search success response holds at most `limit` results,
\* results_count is the number of results, the results are in non-increasing
\* score order with ties in insertion order, and their ranks are 1..results_count
\* in that order.
C5_SearchResultsOrdered ==
    (last.op = "search" /\ last.resp.code = 200) =>
        LET rs == last.resp.body.results
        IN  /\ Len(rs) <= last.input.limit
            /\ Len(rs) <= last.input.indexed
            /\ last.resp.body.results_count = Len(rs)
            /\ \A i \in 1..Len(rs) : rs[i].rank = i
            /\ \A i, j \in 1..Len(rs) :
                  i < j => \/ rs[i].score > rs[j].score
                           \/ rs[i].score = rs[j].score /\ rs[i].ord < rs[j].ord

\* a search has cut a longer ranking to its limit, the results kept hold a tie
\* and a strict drop in score
C5_Witness ==
    /\ last.op = "search"
    /\ last.resp.code = 200
    /\ last.input.indexed > last.input.limit
    /\ last.resp.body.results_count = last.input.limit
    /\ \E i, j \in 1..last.resp.body.results_count :
          /\ i < j
          /\ last.resp.body.results[i].score = last.resp.body.results[j].score
    /\ \E i, j \in 1..last.resp.body.results_count :
          last.resp.body.results[i].score > last.resp.body.results[j].score


------------------------------------------------------------------------------
(* C7 *)

ThreeSourceNames ==
    <<"Thai Recipes Collection", "CEO Leadership Best Practices",
      "Company Policies and Procedures">>

ChunksPerLoad ==
    Len(ChunksOf(ThaiRecipes)) + Len(ChunksOf(CEOPractices)) + Len(ChunksOf(CompanyPolicies))

\* every successful request has stored exactly one item (and one set of chunks) per
\* source; each source has at least one item per successful request, and exactly
\* one per successful request when no other request stored anything
ItemsPerSuccessfulLoad ==
    /\ \A r \in LoadReqs :
          loads[r].pc = "done_ok" =>
              /\ NamesOf(ItemsOf(r)) = ThreeSourceNames
              /\ Len(ChunksStoredBy(r)) = ChunksPerLoad
    /\ \A src \in Range(LoadOrder) :
          /\ CountItems(src.name) >= NumSucceeded
          /\ CountChunks(src) >= NumSucceeded * Len(ChunksOf(src))
    /\ (\A r \in LoadReqs : loads[r].pc \in {"idle", "done_ok"}) =>
          /\ Len(contents) = 3 * NumSucceeded
          /\ \A src \in Range(LoadOrder) :
                /\ CountItems(src.name) = NumSucceeded
                /\ CountChunks(src) = NumSucceeded * Len(ChunksOf(src))

\* C7: /loadknowledge is not idempotent: it never clears or deduplicates, so the
\* index only grows, every successful call adds exactly three Content Items (one
\* per fixed source, each with its set of chunks), and after k successful calls
\* and no other the index holds k items and k sets of chunks per source.
C7_LoadAccumulates ==
    /\ []ItemsPerSuccessfulLoad
    /\ [][IsPrefix(contents, contents') /\ IsPrefix(vectors, vectors')]_vars

\* two requests have succeeded and the index holds each source twice
C7_Witness ==
    /\ NumSucceeded = 2
    /\ Len(contents) = 6
    /\ \A src \in Range(LoadOrder) : CountItems(src.name) = 2

------------------------------------------------------------------------------
(* C8 *)

\* C8: /test/agent is diagnostic only: for any question it invokes neither the
\* agent, the model nor the knowledge index, leaves Content Items, Chunks and
\* Session Records unchanged, and returns {status, message, suggestion} with the
\* question echoed in the suggestion.
C8_TestAgentDiagnosticOnly ==
    [][last'.op = "test_agent" =>
          /\ UNCHANGED <<contents, vectors, loads, sessions>>
          /\ last'.calls = <<>>
          /\ last'.resp.code = 200
          /\ DOMAIN last'.resp.body = {"status", "message", "suggestion"}
          /\ last'.resp.body.suggestion[2] = last'.input.question]_vars

\* on either path the handler calls nothing and changes nothing
TestAgentTouchesNothing ==
    [][last'.op = "test_agent" =>
          /\ UNCHANGED <<contents, vectors, loads, sessions>>
          /\ last'.calls = <<>>
          /\ last'.log = <<>>
          /\ last'.resp.code = 200]_vars

------------------------------------------------------------------------------
(* C9 *)

LoadSequential(r) ==
    LET L == loads[r]
    IN  /\ IsPrefix(L.started, ThreeSourceNames)
        /\ IsPrefix(L.completed, L.started)
        /\ Cardinality(L.running) <= 1
        /\ L.running = Range(L.started) \ (Range(L.completed) \cup Range(L.failed))
        /\ NamesOf(ItemsOf(r)) = L.completed
        /\ L.pc = "running" => Len(L.started) = Len(L.completed) + 1
        /\ L.pc \in {"done_ok", "done_err"} => L.running = {}
        /\ L.resp.code = 200 <=> L.pc = "done_ok"
        /\ L.pc = "done_ok" =>
              /\ L.completed = ThreeSourceNames
              /\ L.resp.body.status = "success"
              /\ Len(L.resp.body.loaded_items) = 3
              /\ Len(L.results) = 3

\* C9: within one /loadknowledge request the three ingestions run one after
\* another in the order Thai Recipes Collection, CEO Leadership Best Practices,
\* Company Policies and Procedures, each completed before the next starts; the
\* success response, with exactly three loaded_items, is produced only after all
\* three have completed, and no ingestion is running after a response.
C9_IngestionsSequential == \A r \in LoadReqs : LoadSequential(r)

\* a request has answered success while another request is between two ingestions
C9_Witness ==
    \E r, q \in LoadReqs :
        /\ loads[r].pc = "done_ok"
        /\ loads[r].resp.code = 200
        /\ loads[q].pc = "running"
        /\ Len(loads[q].completed) = 1

------------------------------------------------------------------------------
(* C10 *)

\* the number of Chunk rows the named sources yield together
RECURSIVE ChunksOfNames(_)
ChunksOfNames(names) ==
    IF names = <<>> THEN 0
    ELSE Len(ChunksOf(SourceNamed(Head(names)))) + ChunksOfNames(Tail(names))

LoadFailedAt(r) ==
    LET L == loads[r]
        i == Len(L.started)
    IN  /\ i \in 1..3
        /\ L.started = Take(ThreeSourceNames, i)
        /\ L.failed = <<L.started[i]>>
        /\ L.completed = Take(ThreeSourceNames, i - 1)
        /\ L.running = {}
        /\ NamesOf(ItemsOf(r)) = L.completed
        /\ Len(ChunksStoredBy(r)) = ChunksOfNames(L.completed)
        /\ IsErrorEnvelope(L.resp)
        /\ L.resp.body.detail[1] = "Error loading knowledge"
        /\ L.resp.body.detail[2] \in IngestErrors(SourceNamed(L.failed[1]))

\* C10: if the i-th ingestion of a /loadknowledge request raises, the later ones
\* are never attempted, the items ingested before i stay in the index (no
\* rollback, no clear), and the response is HTTP 500 with detail
\* "Error loading knowledge: <message>".
C10_FailureKeepsEarlierItems ==
    /\ [](\A r \in LoadReqs : loads[r].pc = "done_err" => LoadFailedAt(r))
    /\ [][\A r \in LoadReqs :
              loads[r].pc = "done_err" =>
                  /\ loads'[r] = loads[r]
                  /\ ItemsOf(r)' = ItemsOf(r)
                  /\ ChunksStoredBy(r)' = ChunksStoredBy(r)]_vars

\* the third ingestion has raised: the answer is HTTP 500 and the two items
\* ingested before it are in the index
C10_Witness ==
    \E r \in LoadReqs :
        /\ loads[r].pc = "done_err"
        /\ loads[r].resp.code = 500
        /\ Len(loads[r].started) = 3
        /\ Len(ItemsOf(r)) = 2
        /\ Len(ChunksStoredBy(r)) = 3


------------------------------------------------------------------------------
(* C6 *)

\* C6: the CEO and the CTO agent share one session table; after any interleaving
\* of turns the session record of an agent holds only turns addressed to that
\* agent, and a run of one agent leaves the record of every other session key
\* unchanged.
C6_HistoryIsolation ==
    /\ [](\A a \in PlaygroundAgents :
              /\ \A i \in 1..Len(SessionOf(a)) : SessionOf(a)[i].agent = a.name
              /\ \A b \in PlaygroundAgents :
                    a.name # b.name => SessionKey(a) # SessionKey(b))
    /\ [][\A a \in PlaygroundAgents :
              a.name # last'.input.agent => SessionOf(a)' = SessionOf(a)]_vars
    /\ [][\A k \in DOMAIN sessions :
              /\ k \in DOMAIN sessions'
              /\ IsPrefix(sessions[k], sessions'[k])
              /\ sessions'[k] # sessions[k] =>
                    \E a \in PlaygroundAgents :
                        a.name = last'.input.agent /\ k = SessionKey(a)]_vars

\* both agents have been addressed, the CEO agent twice and the CTO agent once
C6_Witness ==
    /\ Len(SessionOf(ceo_agent)) = 4
    /\ Len(SessionOf(cto_agent)) = 2
    /\ SessionOf(cto_agent)[1].agent = "CTO Agent"
    /\ last.input.agent = "CEO Agent"

====
